---- MODULE Spec2Model ----
(***************************************************************************)
(* Arm semihosting transport, host I/O service layer and gcov coverage     *)
(* export pipeline of gcov-demo-stm32f103 (semihost.c, coverage.c, main.c).*)
(*                                                                         *)
(* The target is single-threaded.  A transport request (bkpt 0xAB) halts   *)
(* the target until the debug host services the trap, so the model has a   *)
(* target, whose position is pc, and a host, which answers the pending     *)
(* trap.  libgcov (__gcov_reset, __gcov_info_to_gcda,                      *)
(* __gcov_filename_to_gcfn) is the environment of the pipeline: it calls   *)
(* the byte sink zero or more times per pass.                              *)
(***************************************************************************)
EXTENDS Integers, Sequences, FiniteSets, TLC

(* ------------------------------------------------------------------ *)
(* Bounds of the model                                                 *)
(* ------------------------------------------------------------------ *)
MaxRecords == 2
MaxFnChunks == 1
MaxDataChunks == 2
MaxCount == 1
MaxInits == 2
MaxDumps == 2

(* ------------------------------------------------------------------ *)
(* Semihosting command numbers                                         *)
(* ------------------------------------------------------------------ *)
SYS_OPEN == 1
SYS_CLOSE == 2
SYS_WRITE == 5
SYS_ISERROR == 8
SYS_ISTTY == 9
SYS_SEEK == 10
SYS_TMPNAM == 13
SYS_GET_CMDLINE == 21
SYS_HEAPINFO == 22
SYS_ELAPSED == 48
SYS_READ == 6
SYS_FLEN == 12
SYS_REMOVE == 14
SYS_RENAME == 15
SYS_SYSTEM == 18
SYS_ERRNO == 19

(* Access mode handed to lSemihostOpen by Coverage_vDump: 5, "wb" *)
ModeWB == 5

NULL == 0

(* ------------------------------------------------------------------ *)
(* Machine words.  A uint32_t is a numeral of two 16-bit limbs, a       *)
(* uint64_t one of four, most significant limb first, so that every     *)
(* 32-bit pattern, 0xFFFFFFFF included, is a value of the model.        *)
(* An int32_t is an integer in -2^31 .. 2^31-1.                         *)
(* ------------------------------------------------------------------ *)
Limb == 2^16

(* the uint32_t with value n, 0 <= n < 2^31 *)
W(n) == <<n \div Limb, n % Limb>>

(* value of a uint32_t below 2^31 *)
Val(w) == w[1] * Limb + w[2]

(* 0xFFFFFFFF, the bit pattern of -1 *)
AllOnes == <<Limb - 1, Limb - 1>>

(* (uint32_t)x of a uint32_t or uint64_t x: its low two limbs *)
U32(x) == SubSeq(x, Len(x) - 1, Len(x))

(* x >> 32 of a uint64_t x *)
Shr32(x) == <<0, 0>> \o SubSeq(x, 1, 2)

(* (int32_t)x of a uint32_t or uint64_t x: two's complement of the low word *)
I32(x) ==
  LET h == x[Len(x) - 1]
      l == x[Len(x)]
  IN  IF h >= Limb \div 2 THEN (h - Limb) * Limb + l ELSE h * Limb + l

(* (uint32_t)v of an int32_t v *)
U32ofI32(v) ==
  IF v >= 0 THEN W(v)
  ELSE LET m == -(v + 1)
       IN  <<Limb - 1 - (m \div Limb), Limb - 1 - (m % Limb)>>

(* mutant: r0 read as the high word *)
Raw64Swapped(r0, r1) == r0 \o r1

(* r0 and r1 read as the uint64_t return value (AAPCS): r0 is the low word *)
Raw64(r0, r1) == r1 \o r0

None == [cmd |-> 0, args |-> <<>>]
NoReply == <<>>
NoRegs == <<>>
NoAlloc == [called |-> FALSE, uSize |-> 0, ret |-> 0]
NoRet == "none"

VARIABLES
  pc,            \* position of the target program
  trap,          \* the request the target is halted on, or None
  reply,         \* r1:r0 of the serviced trap, until the target reads it
  regs,          \* r0 and r1 as the host left them when it resumed
  registry,      \* __gcov_info_start .. __gcov_info_end: record pointers
  nFn,           \* filename chunks libgcov emits for a record
  nDt,           \* data chunks libgcov emits for a record
  counters,      \* execution count held in the records' counters
  ticks,         \* runs of instrumented code since the last Coverage_vInit
  nInit,         \* calls of Coverage_vInit so far
  nDump,         \* calls of Coverage_vDump that have returned
  pszFilename,   \* Coverage_vDump: its parameter
  lFile,         \* Coverage_vDump: its local lFile
  pIt,           \* Coverage_vDump: loop iterator, an index into registry
  pass,          \* libgcov: pass of the current record
  idx,           \* libgcov: chunks of the current pass already emitted
  reqs,          \* requests issued by the current (or last) dump
  emitted,       \* chunks libgcov handed to the sink in that dump
  hostOpen,      \* host: handles currently open
  hostFile,      \* host: bytes stored since the last open, up to and
                 \* including the first incompletely transferred chunk
  writesOk,      \* host: every write since the last open had remainder 0
  openR0,        \* host: r0 it returned for the last SYS_OPEN
  nOpens,        \* host: SYS_OPEN requests serviced so far
  nCloses,       \* host: SYS_CLOSE requests serviced so far
  op,            \* service layer: operation being called
  ret,           \* service layer: typed return value of the last call
  heapInfo,      \* service layer: *psInfo
  alloc,         \* libgcov: its last call of the allocator in this pass
  prev           \* chunks handed to the sink in the dump before

covVars == <<registry, nFn, nDt, counters, ticks, nInit, nDump>>
dumpVars == <<pszFilename, lFile, pIt, pass, idx>>
logVars == <<reqs, emitted>>
hostVars == <<hostOpen, hostFile, writesOk, openR0, nOpens, nCloses>>
svcVars == <<op, ret, heapInfo>>
obsVars == <<alloc, prev>>
vars == <<pc, trap, reply, regs, covVars, dumpVars, logVars, hostVars, svcVars,
          obsVars>>


(* ------------------------------------------------------------------ *)
(* C strings and target memory                                         *)
(* ------------------------------------------------------------------ *)
(* strlen: number of characters before the first NUL *)
strlen(chars) ==
  CHOOSE n \in 0..(Len(chars) - 1) :
    chars[n + 1] = 0 /\ \A i \in 1..n : chars[i] # 0

(* "build/coverage.bin", the name main() passes, and a one-letter name *)
CoverageBin ==
  [ptr |-> W(4096),
   chars |-> <<98, 117, 105, 108, 100, 47, 99, 111, 118, 101, 114, 97, 103,
               101, 46, 98, 105, 110, 0>>]

ShortName == [ptr |-> W(8192), chars |-> <<99, 0>>]

Filenames == {CoverageBin, ShortName}

(* the byte the target holds at address a *)
Mem(a) == (a * 3 + 1) % 256

(* the uLength bytes at pData *)
Bytes(pData, n) == [i \in 1..n |-> Mem(Val(pData) + i - 1)]

(* ------------------------------------------------------------------ *)
(* libgcov, the environment of the pipeline                            *)
(* ------------------------------------------------------------------ *)
GcovInfoStart == 1
GcovInfoEnd == Len(registry) + 1

(* __gcov_reset: zeroes the counters of every record *)
GcovReset(c) == 0

(* the i-th chunk (from 0) __gcov_filename_to_gcfn hands to the sink *)
FnChunk(r, i) == [pData |-> W(64 * r + 8 * i), uLength |-> W(2)]

(* the i-th chunk (from 0) __gcov_info_to_gcda hands to the sink: the *)
(* serialized counters, so the bytes depend on the counter value       *)
DataChunk(r, i, c) ==
  [pData |-> W(64 * r + 32 + 8 * i + 2 * c), uLength |-> W(1 + (i % 2))]

(* mutant: the loop runs from the end marker down to the start *)
RecordAtReversed(it) == registry[Len(registry) + 1 - it]

(* *pIt *)
RecordAt(it) == registry[it]

GcovChunk(r, p, i) ==
  IF p = "fname" THEN FnChunk(r, i) ELSE DataChunk(r, i, counters)

ChunkCount(r, p) == IF p = "fname" THEN nFn ELSE nDt

(* ------------------------------------------------------------------ *)
(* Transport core                                                      *)
(* ------------------------------------------------------------------ *)
(* ullSemihostReqOp up to the bkpt: the target halts on the request.  *)
(* log is the sequence of requests the running call issued before.    *)
ullSemihostReqOp(log, req) ==
  /\ trap' = req
  /\ reqs' = Append(log, req)

(* ------------------------------------------------------------------ *)
(* Host I/O service layer: argument blocks and result mappings         *)
(* ------------------------------------------------------------------ *)
(* mutant: the length counts the terminator *)
lSemihostOpenReqWithNul(pszPath, ulMode) ==
  [cmd |-> SYS_OPEN,
   args |-> <<pszPath.ptr, ulMode, W(strlen(pszPath.chars) + 1)>>]

lSemihostOpenReq(pszPath, ulMode) ==
  [cmd |-> SYS_OPEN, args |-> <<pszPath.ptr, ulMode, W(strlen(pszPath.chars))>>]

lSemihostOpen(ullResult) == I32(ullResult)

bSemihostCloseReq(file) ==
  [cmd |-> SYS_CLOSE, args |-> <<U32ofI32(file)>>]

bSemihostClose(ullResult) == U32(ullResult) = W(0)

(* mutant: buffer pointer and length swapped in the argument block *)
lSemihostWriteReqSwapped(file, pData, ulLen) ==
  [cmd |-> SYS_WRITE, args |-> <<U32ofI32(file), ulLen, pData>>]

lSemihostWriteReq(file, pData, ulLen) ==
  [cmd |-> SYS_WRITE, args |-> <<U32ofI32(file), pData, ulLen>>]

lSemihostWrite(ullResult) == I32(ullResult)

(* ------------------------------------------------------------------ *)
(* Coverage export pipeline                                            *)
(* ------------------------------------------------------------------ *)
(* mutant: only the first call resets the counters *)
Coverage_vInitOnce ==
  /\ pc = "main"
  /\ nInit < MaxInits
  /\ counters' = IF nInit = 0 THEN GcovReset(counters) ELSE counters
  /\ ticks' = 0
  /\ nInit' = nInit + 1
  /\ UNCHANGED <<pc, trap, reply, regs, registry, nFn, nDt, nDump, dumpVars,
                 logVars, hostVars, svcVars, obsVars>>

Coverage_vInit ==
  /\ pc = "main"
  /\ nInit < MaxInits
  /\ counters' = GcovReset(counters)
  /\ ticks' = 0
  /\ nInit' = nInit + 1
  /\ UNCHANGED <<pc, trap, reply, regs, registry, nFn, nDt, nDump, dumpVars,
                 logVars, hostVars, svcVars, obsVars>>

(* instrumented code runs between the calls and bumps the counters *)
InstrumentedCode ==
  /\ pc = "main"
  /\ counters < MaxCount
  /\ counters' = counters + 1
  /\ ticks' = ticks + 1
  /\ UNCHANGED <<pc, trap, reply, regs, registry, nFn, nDt, nInit, nDump, dumpVars,
                 logVars, hostVars, svcVars, obsVars>>

(* Coverage_vDump is entered and halts in lSemihostOpen; what a caller *)
(* remembers of the dump before (prev) is left to the specification    *)
Coverage_vDump(f) ==
  /\ pc = "main"
  /\ nDump < MaxDumps
  /\ pszFilename' = f
  /\ ullSemihostReqOp(<<>>, lSemihostOpenReq(f, W(ModeWB)))
  /\ emitted' = <<>>
  /\ pc' = "open"
  /\ UNCHANGED <<reply, regs, covVars, lFile, pIt, pass, idx, hostVars, svcVars,
                 alloc>>

(* mutant: after a failed open the reason is asked for with SYS_ERRNO *)
OpenReturnQueryErrno ==
  /\ pc = "open"
  /\ trap = None
  /\ IF lSemihostOpen(reply) < 0 /\ reqs[Len(reqs)].cmd = SYS_OPEN
       THEN /\ ullSemihostReqOp(reqs, [cmd |-> SYS_ERRNO, args |-> <<>>])
            /\ UNCHANGED <<pc, lFile, pIt, reply, regs, emitted>>
       ELSE /\ lFile' = lSemihostOpen(reply)
            /\ pIt' = GcovInfoStart
            /\ pc' = "loop"
            /\ reply' = NoReply
            /\ regs' = NoRegs
            /\ UNCHANGED <<trap, logVars>>
  /\ UNCHANGED <<covVars, pszFilename, pass, idx, hostVars, svcVars, obsVars>>

(* lSemihostOpen returns: lFile is set and the loop starts *)
OpenReturn ==
  /\ pc = "open"
  /\ trap = None
  /\ lFile' = lSemihostOpen(reply)
  /\ pIt' = GcovInfoStart
  /\ pc' = "loop"
  /\ reply' = NoReply
  /\ regs' = NoRegs
  /\ UNCHANGED <<trap, covVars, pszFilename, pass, idx, logVars, hostVars,
                 svcVars, obsVars>>

(* mutant: a failed open is not closed *)
DumpLoopCloseIfOpen ==
  /\ pc = "loop"
  /\ IF pIt # GcovInfoEnd
       THEN /\ pass' = "fname"
            /\ idx' = 0
            /\ pc' = "emit"
            /\ UNCHANGED <<trap, reqs, nDump>>
       ELSE IF lFile >= 0
              THEN /\ ullSemihostReqOp(reqs, bSemihostCloseReq(lFile))
                   /\ pc' = "close"
                   /\ UNCHANGED <<pass, idx, nDump>>
              ELSE /\ nDump' = nDump + 1
                   /\ pc' = "main"
                   /\ UNCHANGED <<trap, reqs, pass, idx>>
  /\ UNCHANGED <<reply, regs, registry, nFn, nDt, counters, ticks, nInit,
                 pszFilename, lFile, pIt, emitted, hostVars, svcVars, obsVars>>

(* mutant: a failed open ends the dump before the first record *)
DumpLoopAbortOnFail ==
  /\ pc = "loop"
  /\ IF pIt # GcovInfoEnd /\ lFile >= 0
       THEN /\ pass' = "fname"
            /\ idx' = 0
            /\ pc' = "emit"
            /\ UNCHANGED <<trap, reqs>>
       ELSE /\ ullSemihostReqOp(reqs, bSemihostCloseReq(lFile))
            /\ pc' = "close"
            /\ UNCHANGED <<pass, idx>>
  /\ UNCHANGED <<reply, regs, covVars, pszFilename, lFile, pIt, emitted, hostVars,
                 svcVars, obsVars>>

(* mutant: the dump returns after the loop without closing the file *)
DumpLoopNoClose ==
  /\ pc = "loop"
  /\ IF pIt # GcovInfoEnd
       THEN /\ pass' = "fname"
            /\ idx' = 0
            /\ pc' = "emit"
            /\ UNCHANGED nDump
       ELSE /\ nDump' = nDump + 1
            /\ pc' = "main"
            /\ UNCHANGED <<pass, idx>>
  /\ UNCHANGED <<trap, reply, regs, registry, nFn, nDt, counters, ticks, nInit,
                 pszFilename, lFile, pIt, logVars, hostVars, svcVars, obsVars>>

(* mutant: after a failed open a record is skipped before the iterator *)
(* is advanced                                                         *)
DumpLoopSpinOnFail ==
  /\ pc = "loop"
  /\ IF pIt # GcovInfoEnd
       THEN IF lFile >= 0
              THEN /\ pass' = "fname"
                   /\ idx' = 0
                   /\ pc' = "emit"
                   /\ UNCHANGED <<trap, reqs>>
              ELSE UNCHANGED <<pc, pass, idx, trap, reqs>>
       ELSE /\ ullSemihostReqOp(reqs, bSemihostCloseReq(lFile))
            /\ pc' = "close"
            /\ UNCHANGED <<pass, idx>>
  /\ UNCHANGED <<reply, regs, covVars, pszFilename, lFile, pIt, emitted, hostVars,
                 svcVars, obsVars>>

(* loop head: the next record goes to __gcov_info_to_gcda, or the loop *)
(* is over and bSemihostClose is called                                *)
DumpLoop ==
  /\ pc = "loop"
  /\ IF pIt # GcovInfoEnd
       THEN /\ pass' = "fname"
            /\ idx' = 0
            /\ pc' = "emit"
            /\ UNCHANGED <<trap, reqs>>
       ELSE /\ ullSemihostReqOp(reqs, bSemihostCloseReq(lFile))
            /\ pc' = "close"
            /\ UNCHANGED <<pass, idx>>
  /\ UNCHANGED <<reply, regs, covVars, pszFilename, lFile, pIt, emitted, hostVars,
                 svcVars, obsVars>>

(* mutant: the sink passes the address in pArg instead of the handle *)
(* the address points to                                             *)
vDumpCbAddressAsHandle(pData, uLength, pArg) ==
  ullSemihostReqOp(reqs, lSemihostWriteReq(536891388, pData, uLength))

(* the byte sink: forwards the chunk to lSemihostWrite on *pArg *)
vDumpCb(pData, uLength, pArg) ==
  ullSemihostReqOp(reqs, lSemihostWriteReq(pArg, pData, uLength))

(* libgcov hands the next chunk of the running pass to the sink: for   *)
(* the filename pass through vFilenameCb and __gcov_filename_to_gcfn   *)
GcovEmit ==
  /\ pc = "emit"
  /\ idx < ChunkCount(RecordAt(pIt), pass)
  /\ LET c == GcovChunk(RecordAt(pIt), pass, idx)
     IN  /\ emitted' = Append(emitted, c)
         /\ vDumpCb(c.pData, c.uLength, lFile)
  /\ pc' = "write"
  /\ UNCHANGED <<reply, regs, covVars, dumpVars, hostVars, svcVars, obsVars>>

(* mutant: a chunk with a nonzero remainder is written once more *)
WriteReturnRetry ==
  /\ pc = "write"
  /\ trap = None
  /\ reply' = NoReply
  /\ regs' = NoRegs
  /\ IF /\ lSemihostWrite(reply) # 0
        /\ reqs[Len(reqs)] # reqs[Len(reqs) - 1]
       THEN /\ ullSemihostReqOp(reqs, reqs[Len(reqs)])
            /\ UNCHANGED <<pc, idx>>
       ELSE /\ idx' = idx + 1
            /\ pc' = "emit"
            /\ UNCHANGED <<trap, reqs>>
  /\ UNCHANGED <<covVars, pszFilename, lFile, pIt, pass, emitted, hostVars,
                 svcVars, obsVars>>

(* mutant: the write gives up waiting for the host and returns *)
WriteReturnTimeout ==
  /\ pc = "write"
  /\ trap' = None
  /\ idx' = idx + 1
  /\ pc' = "emit"
  /\ reply' = NoReply
  /\ regs' = NoRegs
  /\ UNCHANGED <<covVars, pszFilename, lFile, pIt, pass, logVars,
                 hostVars, svcVars, obsVars>>

(* lSemihostWrite returns into vDumpCb, which drops the remainder *)
WriteReturn ==
  /\ pc = "write"
  /\ trap = None
  /\ idx' = idx + 1
  /\ pc' = "emit"
  /\ reply' = NoReply
  /\ regs' = NoRegs
  /\ UNCHANGED <<trap, covVars, pszFilename, lFile, pIt, pass, logVars,
                 hostVars, svcVars, obsVars>>

(* mutant: small requests are served from a static buffer *)
pAllocateCbStatic(uSize, pArg) == IF uSize <= 4 THEN 536871936 ELSE NULL

(* the allocator callback: no memory, whatever the size *)
pAllocateCb(uSize, pArg) == NULL

(* sizes libgcov may ask the allocator for *)
AllocSizes == {4, 16}

(* libgcov may ask the allocator for memory while it converts the      *)
(* counters of a record, at most once in a pass here                   *)
GcovAllocate ==
  /\ pc = "emit"
  /\ pass = "data"
  /\ ~alloc.called
  /\ \E uSize \in AllocSizes :
       alloc' = [called |-> TRUE, uSize |-> uSize,
                 ret |-> pAllocateCb(uSize, lFile)]
  /\ UNCHANGED <<pc, trap, reply, regs, covVars, dumpVars, logVars, hostVars,
                 svcVars, prev>>

(* libgcov has no more chunks for the pass: the data pass follows the  *)
(* filename pass, and after it __gcov_info_to_gcda returns (++pIt)     *)
GcovPassDone ==
  /\ pc = "emit"
  /\ idx = ChunkCount(RecordAt(pIt), pass)
  /\ IF pass = "fname"
       THEN /\ pass' = "data"
            /\ idx' = 0
            /\ UNCHANGED <<pc, pIt>>
       ELSE /\ pIt' = pIt + 1
            /\ pc' = "loop"
            /\ UNCHANGED <<pass, idx>>
  /\ alloc' = NoAlloc
  /\ UNCHANGED <<trap, reply, regs, covVars, pszFilename, lFile, logVars, hostVars,
                 svcVars, prev>>

(* mutant: the counters are reset once the file is closed *)
CloseReturnReset ==
  /\ pc = "close"
  /\ trap = None
  /\ nDump' = nDump + 1
  /\ counters' = GcovReset(counters)
  /\ pc' = "main"
  /\ reply' = NoReply
  /\ regs' = NoRegs
  /\ UNCHANGED <<trap, registry, nFn, nDt, ticks, nInit, dumpVars,
                 logVars, hostVars, svcVars, obsVars>>

(* bSemihostClose returns; its result is dropped and the dump returns *)
CloseReturn ==
  /\ pc = "close"
  /\ trap = None
  /\ nDump' = nDump + 1
  /\ pc' = "main"
  /\ reply' = NoReply
  /\ regs' = NoRegs
  /\ UNCHANGED <<trap, registry, nFn, nDt, counters, ticks, nInit, dumpVars,
                 logVars, hostVars, svcVars, obsVars>>

(* ------------------------------------------------------------------ *)
(* The debug host: services the trap and resumes the target            *)
(* ------------------------------------------------------------------ *)
Handles == {W(3), W(4)}
HostR1 == {W(0), AllOnes}

Resume(r0) ==
  /\ \E r1 \in HostR1 :
       /\ regs' = [r0 |-> r0, r1 |-> r1]
       /\ reply' = Raw64(r0, r1)
  /\ trap' = None

HostOpen ==
  /\ trap.cmd = SYS_OPEN
  /\ \/ \E h \in Handles \ hostOpen :
          /\ Resume(h)
          /\ hostOpen' = hostOpen \cup {h}
          /\ hostFile' = <<>>
          /\ writesOk' = TRUE
          /\ openR0' = h
     \/ /\ Resume(AllOnes)
        /\ hostFile' = <<>>
        /\ writesOk' = TRUE
        /\ openR0' = AllOnes
        /\ UNCHANGED hostOpen
  /\ nOpens' = nOpens + 1
  /\ UNCHANGED nCloses

HostWrite ==
  /\ trap.cmd = SYS_WRITE
  /\ LET h == trap.args[1]
         p == trap.args[2]
         n == Val(trap.args[3])
     IN  IF h \in hostOpen
           THEN \E rem \in {0, 1} :
                  /\ rem <= n
                  /\ Resume(W(rem))
                  /\ hostFile' = IF writesOk
                                  THEN hostFile \o Bytes(p, n - rem)
                                  ELSE hostFile
                  /\ writesOk' = (writesOk /\ rem = 0)
                  /\ UNCHANGED hostOpen
           ELSE /\ \E r0 \in {W(n), AllOnes} : Resume(r0)
                /\ writesOk' = FALSE
                /\ UNCHANGED <<hostOpen, hostFile>>
  /\ UNCHANGED <<openR0, nOpens, nCloses>>

(* a close releases the handle even when it reports a failure *)
HostClose ==
  /\ trap.cmd = SYS_CLOSE
  /\ LET h == trap.args[1]
     IN  /\ \E r0 \in IF h \in hostOpen THEN {W(0), AllOnes} ELSE {AllOnes} :
              Resume(r0)
         /\ hostOpen' = hostOpen \ {h}
         /\ UNCHANGED <<hostFile, writesOk>>
  /\ nCloses' = nCloses + 1
  /\ UNCHANGED <<openR0, nOpens>>

Host ==
  /\ trap # None
  /\ (HostOpen \/ HostWrite \/ HostClose)
  /\ UNCHANGED <<pc, covVars, dumpVars, logVars, svcVars, obsVars>>

(* ------------------------------------------------------------------ *)
(* The pipeline under any caller and any host                          *)
(* ------------------------------------------------------------------ *)
Init ==
  /\ pc = "main"
  /\ trap = None
  /\ reply = NoReply
  /\ regs = NoRegs
  /\ \E n \in 0..MaxRecords :
       /\ registry = [i \in 1..n |-> i]
       /\ nFn \in 0..MaxFnChunks
       /\ nDt \in 0..MaxDataChunks
       /\ counters = 0
  /\ ticks = 0
  /\ nInit = 0
  /\ nDump = 0
  /\ pszFilename = CoverageBin
  /\ lFile = 0
  /\ pIt = GcovInfoStart
  /\ pass = "fname"
  /\ idx = 0
  /\ reqs = <<>>
  /\ emitted = <<>>
  /\ hostOpen = {}
  /\ hostFile = <<>>
  /\ writesOk = TRUE
  /\ openR0 = NoReply
  /\ nOpens = 0
  /\ nCloses = 0
  /\ alloc = NoAlloc
  /\ prev = <<>>
  /\ op = "none"
  /\ ret = NoRet
  /\ heapInfo = [pHeapBase |-> NULL, pHeapLimit |-> NULL,
                 pStackBase |-> NULL, pStackLimit |-> NULL]

Next ==
  \/ Coverage_vInit
  \/ InstrumentedCode
  \/ \E f \in Filenames : Coverage_vDump(f) /\ UNCHANGED prev
  \/ OpenReturn
  \/ DumpLoop
  \/ GcovEmit
  \/ WriteReturn
  \/ GcovPassDone
  \/ CloseReturn
  \/ Host

Spec == Init /\ [][Next]_vars

(* ------------------------------------------------------------------ *)
(* Host I/O service layer, called directly: one call at a time, any     *)
(* reply.  The typed return value stays in ret, the raw reply in reply. *)
(* ------------------------------------------------------------------ *)
ulSemihostGetCmdlineReq(pBuf, ulSize) ==
  [cmd |-> SYS_GET_CMDLINE, args |-> <<pBuf, ulSize>>]

(* mutant: the length is returned without looking at the low word *)
ulSemihostGetCmdlineNoCheck(ullResult) == U32(Shr32(ullResult))

(* ((uint32_t)ullResult == 0uL) ? (ullResult >> 32) : 0uL, as uint32_t *)
ulSemihostGetCmdline(ullResult) ==
  IF U32(ullResult) = W(0) THEN U32(Shr32(ullResult)) ELSE W(0)

bSemihostSeekReq(file, ulPos) ==
  [cmd |-> SYS_SEEK, args |-> <<U32ofI32(file), ulPos>>]

(* mutant: every non-negative result counts as success *)
bSemihostSeekNonNegative(ullResult) == I32(ullResult) >= 0

bSemihostSeek(ullResult) == U32(ullResult) = W(0)

bSemihostIsTTYReq(file) == [cmd |-> SYS_ISTTY, args |-> <<U32ofI32(file)>>]

(* mutant: every nonzero result counts as a tty *)
bSemihostIsTTYNonZero(ullResult) == U32(ullResult) # W(0)

bSemihostIsTTY(ullResult) == U32(ullResult) = W(1)

bSemihostGetTmpnamReq(pszBuf, ucId, ulSize) ==
  [cmd |-> SYS_TMPNAM, args |-> <<pszBuf, W(ucId), ulSize>>]

bSemihostGetTmpnam(ullResult) == U32(ullResult) = W(0)

bSemihostIsErrorReq(lStatus) ==
  [cmd |-> SYS_ISERROR, args |-> <<U32ofI32(lStatus)>>]

bSemihostIsError(ullResult) == U32(ullResult) # W(0)

(* ulArg is pullElapsed itself: the block is the uint64_t it points to *)
bSemihostGetElapsedReq(pullElapsed) ==
  [cmd |-> SYS_ELAPSED, args |-> <<pullElapsed>>]

bSemihostGetElapsed(ullResult) == U32(ullResult) = W(0)

bSemihostGetHeapInfoReq(psInfo) ==
  [cmd |-> SYS_HEAPINFO, args |-> <<psInfo>>]

(* mutant: the raw result has to report success as well *)
bSemihostGetHeapInfoByResult(ullResult, psInfo) ==
  /\ U32(ullResult) = W(0)
  /\ psInfo.pHeapBase # NULL
  /\ psInfo.pHeapLimit # NULL
  /\ psInfo.pStackBase # NULL
  /\ psInfo.pStackLimit # NULL

(* the raw result is cast to void: only *psInfo decides *)
bSemihostGetHeapInfo(ullResult, psInfo) ==
  /\ psInfo.pHeapBase # NULL
  /\ psInfo.pHeapLimit # NULL
  /\ psInfo.pStackBase # NULL
  /\ psInfo.pStackLimit # NULL

lSemihostSystemReq(pszCmd) ==
  [cmd |-> SYS_SYSTEM, args |-> <<pszCmd.ptr, W(strlen(pszCmd.chars))>>]

lSemihostSystem(ullResult) == I32(ullResult)

lSemihostReadReq(file, pBuf, ulLen) ==
  [cmd |-> SYS_READ, args |-> <<U32ofI32(file), pBuf, ulLen>>]

(* mutant: every negative result is reported as -1 *)
lSemihostReadClamped(ullResult) ==
  IF I32(ullResult) < 0 THEN -1 ELSE I32(ullResult)

lSemihostRead(ullResult) == I32(ullResult)

lSemihostGetFLenReq(file) ==
  [cmd |-> SYS_FLEN, args |-> <<U32ofI32(file)>>]

lSemihostGetFLen(ullResult) == I32(ullResult)

(* ulArg is 0: SYS_ERRNO has no argument block *)
lSemihostGetErrnoReq == [cmd |-> SYS_ERRNO, args |-> <<>>]

lSemihostGetErrno(ullResult) == I32(ullResult)

lSemihostRemoveReq(pszPath) ==
  [cmd |-> SYS_REMOVE, args |-> <<pszPath.ptr, W(strlen(pszPath.chars))>>]

lSemihostRemove(ullResult) == I32(ullResult)

lSemihostRenameReq(pszFrom, pszTo) ==
  [cmd |-> SYS_RENAME,
   args |-> <<pszFrom.ptr, W(strlen(pszFrom.chars)),
              pszTo.ptr, W(strlen(pszTo.chars))>>]

lSemihostRename(ullResult) == I32(ullResult)

(* sample arguments of the callers *)
SvcBuf == W(536871168)
SvcSize == W(80)
SvcFiles == {-1, 3}

(* the functions that return the host's result as an int32_t *)
Int32Ops == {"Open", "Write", "Read", "GetFLen", "GetErrno", "Remove",
             "Rename", "System"}

Ops == {"GetCmdline", "Close", "Seek", "IsTTY", "GetTmpnam", "IsError",
        "GetElapsed", "GetHeapInfo"} \cup Int32Ops

SvcReq(o, file) ==
  CASE o = "GetCmdline" -> ulSemihostGetCmdlineReq(SvcBuf, SvcSize)
    [] o = "Close" -> bSemihostCloseReq(file)
    [] o = "Seek" -> bSemihostSeekReq(file, W(16))
    [] o = "IsTTY" -> bSemihostIsTTYReq(file)
    [] o = "GetTmpnam" -> bSemihostGetTmpnamReq(SvcBuf, 7, SvcSize)
    [] o = "IsError" -> bSemihostIsErrorReq(file)
    [] o = "GetElapsed" -> bSemihostGetElapsedReq(SvcBuf)
    [] o = "GetHeapInfo" -> bSemihostGetHeapInfoReq(SvcBuf)
    [] o = "Open" -> lSemihostOpenReq(CoverageBin, W(ModeWB))
    [] o = "Write" -> lSemihostWriteReq(file, SvcBuf, SvcSize)
    [] o = "Read" -> lSemihostReadReq(file, SvcBuf, SvcSize)
    [] o = "GetFLen" -> lSemihostGetFLenReq(file)
    [] o = "GetErrno" -> lSemihostGetErrnoReq
    [] o = "Remove" -> lSemihostRemoveReq(CoverageBin)
    [] o = "Rename" -> lSemihostRenameReq(CoverageBin, ShortName)
    [] o = "System" -> lSemihostSystemReq(ShortName)

SvcResult(o, ullResult, psInfo) ==
  CASE o = "GetCmdline" -> ulSemihostGetCmdline(ullResult)
    [] o = "Close" -> bSemihostClose(ullResult)
    [] o = "Seek" -> bSemihostSeek(ullResult)
    [] o = "IsTTY" -> bSemihostIsTTY(ullResult)
    [] o = "GetTmpnam" -> bSemihostGetTmpnam(ullResult)
    [] o = "IsError" -> bSemihostIsError(ullResult)
    [] o = "GetElapsed" -> bSemihostGetElapsed(ullResult)
    [] o = "GetHeapInfo" -> bSemihostGetHeapInfo(ullResult, psInfo)
    [] o = "Open" -> lSemihostOpen(ullResult)
    [] o = "Write" -> lSemihostWrite(ullResult)
    [] o = "Read" -> lSemihostRead(ullResult)
    [] o = "GetFLen" -> lSemihostGetFLen(ullResult)
    [] o = "GetErrno" -> lSemihostGetErrno(ullResult)
    [] o = "Remove" -> lSemihostRemove(ullResult)
    [] o = "Rename" -> lSemihostRename(ullResult)
    [] o = "System" -> lSemihostSystem(ullResult)

(* a service function is entered and halts in ullSemihostReqOp *)
SvcCall(o, file) ==
  /\ pc = "main"
  /\ op' = o
  /\ ullSemihostReqOp(<<>>, SvcReq(o, file))
  /\ reply' = NoReply
  /\ regs' = NoRegs
  /\ ret' = NoRet
  /\ pc' = "svc"
  /\ UNCHANGED <<covVars, dumpVars, emitted, hostVars, heapInfo, obsVars>>

(* the service function maps the raw result and returns *)
SvcReturn ==
  /\ pc = "svc"
  /\ trap = None
  /\ ret' = SvcResult(op, reply, heapInfo)
  /\ pc' = "main"
  /\ UNCHANGED <<trap, reply, regs, covVars, dumpVars, logVars, hostVars, op,
                 heapInfo, obsVars>>

(* words a host may leave in r0 and r1 *)
RawWords == {W(0), W(1), W(42), <<Limb \div 2, 0>>, AllOnes}

(* pointers a host may store into a heap-info field *)
HeapPtrs == {NULL, 536870912}

HeapInfos ==
  [pHeapBase : HeapPtrs, pHeapLimit : HeapPtrs,
   pStackBase : HeapPtrs, pStackLimit : HeapPtrs]

(* any host: whatever the command, any reply; SYS_HEAPINFO also fills  *)
(* the record psInfo points to                                         *)
HostAny ==
  /\ trap # None
  /\ \E r0 \in RawWords, r1 \in RawWords :
       /\ regs' = [r0 |-> r0, r1 |-> r1]
       /\ reply' = Raw64(r0, r1)
  /\ IF trap.cmd = SYS_HEAPINFO
       THEN heapInfo' \in HeapInfos
       ELSE UNCHANGED heapInfo
  /\ trap' = None
  /\ UNCHANGED <<pc, covVars, dumpVars, logVars, hostVars, op, ret, obsVars>>

InitSvc ==
  /\ Init
  /\ registry = <<>>
  /\ nFn = 0
  /\ nDt = 0

NextSvc ==
  \/ \E o \in Ops, file \in SvcFiles : SvcCall(o, file)
  \/ HostAny
  \/ SvcReturn

SpecSvc == InitSvc /\ [][NextSvc]_vars

(* ------------------------------------------------------------------ *)
(* Dumps that follow each other, libgcov calling the allocator          *)
(* ------------------------------------------------------------------ *)
(* instrumented code runs before the first dump, none between dumps *)
RunCode == nDump = 0 /\ InstrumentedCode

(* a dump is started, and the chunks of the dump before are kept *)
DumpAgain(f) == Coverage_vDump(f) /\ prev' = emitted

TargetStep ==
  \/ OpenReturn
  \/ DumpLoop
  \/ GcovEmit
  \/ WriteReturn
  \/ GcovPassDone
  \/ CloseReturn

NextRun ==
  \/ RunCode
  \/ \E f \in Filenames : DumpAgain(f)
  \/ GcovAllocate
  \/ TargetStep
  \/ Host

SpecRun == Init /\ [][NextRun]_vars

(* ------------------------------------------------------------------ *)
(* The pipeline run to its end: the processor executes the target's    *)
(* code as long as it is not halted, and the host services every trap  *)
(* ------------------------------------------------------------------ *)
DumpCall(f) == Coverage_vDump(f) /\ UNCHANGED prev

NextFair ==
  \/ \E f \in Filenames : DumpCall(f)
  \/ TargetStep
  \/ Host

SpecFair ==
  Init /\ [][NextFair]_vars /\ WF_vars(TargetStep) /\ WF_vars(Host)

(* ------------------------------------------------------------------ *)
(* The demo program: main                                              *)
(* ------------------------------------------------------------------ *)
(* Coverage_vInit() is the first statement of main *)
MainInit == nInit = 0 /\ Coverage_vInit

(* HAL set-up and the LED loop: instrumented code between the calls *)
MainLoop == nInit = 1 /\ nDump = 0 /\ InstrumentedCode

(* mutant: the dump does not wait for the initialisation *)
MainDumpEarly ==
  /\ nDump = 0
  /\ Coverage_vDump(CoverageBin)
  /\ UNCHANGED prev

(* Coverage_vDump("build/coverage.bin") is the last statement of main *)
MainDump ==
  /\ nInit = 1
  /\ nDump = 0
  /\ Coverage_vDump(CoverageBin)
  /\ UNCHANGED prev

NextMain ==
  \/ MainInit
  \/ MainLoop
  \/ MainDump
  \/ TargetStep
  \/ Host

SpecMain == Init /\ [][NextMain]_vars

(* ------------------------------------------------------------------ *)
(* Properties                                                          *)
(* ------------------------------------------------------------------ *)
IsWrite(r) == r.cmd = SYS_WRITE

CountCmd(c) == Cardinality({i \in 1..Len(reqs) : reqs[i].cmd = c})

(* the chunks of the write requests issued so far, in issue order *)
WrittenChunks ==
  LET w == SelectSeq(reqs, IsWrite)
  IN  [i \in 1..Len(w) |-> [pData |-> w[i].args[2], uLength |-> w[i].args[3]]]

(* what libgcov emits for the whole registry when the counters hold c: *)
(* record by record, the filename chunks before the data chunks        *)
ExpectedChunks(c) ==
  LET per == nFn + nDt
  IN  [j \in 1..(Len(registry) * per) |->
         LET k == ((j - 1) \div per) + 1
             o == (j - 1) % per
         IN  IF o < nFn THEN FnChunk(registry[k], o)
                        ELSE DataChunk(registry[k], o - nFn, c)]

IsPrefix(a, b) == Len(a) <= Len(b) /\ \A i \in 1..Len(a) : a[i] = b[i]

(* the bytes of a sequence of chunks, concatenated *)
RECURSIVE ChunkBytes(_)
ChunkBytes(cs) ==
  IF cs = <<>> THEN <<>>
  ELSE Bytes(Head(cs).pData, Val(Head(cs).uLength)) \o ChunkBytes(Tail(cs))

(* the requests of a dump of file f with handle h that emits chunks cs *)
DumpRequests(f, h, cs) ==
  <<[cmd |-> SYS_OPEN, args |-> <<f.ptr, W(5), W(strlen(f.chars))>>]>>
  \o [i \in 1..Len(cs) |->
        [cmd |-> SYS_WRITE, args |-> <<U32ofI32(h), cs[i].pData, cs[i].uLength>>]]
  \o <<[cmd |-> SYS_CLOSE, args |-> <<U32ofI32(h)>>]>>

InDump == pc \in {"open", "loop", "emit", "write", "close"}
DumpDone == pc = "main" /\ nDump > 0
SvcDone(o) == pc = "main" /\ op = o /\ reply # NoReply
LowIsZero(raw) == raw[3] = 0 /\ raw[4] = 0

(* C1: a dump that has returned issued exactly one open, exactly one    *)
(* close and one write per chunk libgcov emitted, which is              *)
(* (filename chunks + data chunks) for each of the N records: no write  *)
(* when N = 0, and then still one open and one close.                   *)
C1_OneOpenOneCloseWritePerChunk ==
  DumpDone =>
    /\ CountCmd(SYS_OPEN) = 1
    /\ CountCmd(SYS_CLOSE) = 1
    /\ CountCmd(SYS_WRITE) = Len(emitted)
    /\ Len(emitted) = Len(registry) * (nFn + nDt)
    /\ Len(reqs) = Len(emitted) + 2

C1_Witness ==
  /\ DumpDone
  /\ Len(registry) = 2 /\ nFn = 1 /\ nDt = 2
  /\ CountCmd(SYS_OPEN) = 1 /\ CountCmd(SYS_WRITE) = 6 /\ CountCmd(SYS_CLOSE) = 1

(* C2: while a dump runs, the chunks of its write requests are, in      *)
(* issue order, a prefix of: record 0's filename chunks, record 0's     *)
(* data chunks, record 1's filename chunks, ...; and all of them when   *)
(* the close is issued.                                                 *)
C2_WritesInRegistryOrder ==
  InDump =>
    /\ IsPrefix(WrittenChunks, ExpectedChunks(counters))
    /\ pc = "close" => WrittenChunks = ExpectedChunks(counters)

C2_Witness ==
  /\ pc = "close"
  /\ Len(registry) = 2 /\ nFn = 1 /\ nDt = 2
  /\ Len(WrittenChunks) = 6

(* C3: the open is the first request of a dump, the close its last, and *)
(* once all chunks are out and every write reported remainder 0 the     *)
(* host file holds the bytes of the emitted chunks, concatenated in     *)
(* emission order.                                                      *)
C3_AllBytesInOrderBetweenOpenAndClose ==
  /\ \A i \in 1..Len(reqs) :
       /\ reqs[i].cmd = SYS_OPEN <=> i = 1
       /\ reqs[i].cmd = SYS_CLOSE => i = Len(reqs) /\ pc \in {"close", "main"}
  /\ (pc = "close" \/ DumpDone) /\ writesOk => hostFile = ChunkBytes(emitted)

C3_Witness ==
  /\ DumpDone
  /\ writesOk
  /\ lFile # -1
  /\ Len(emitted) = 6
  /\ Len(hostFile) = 10

(* C4: after a failed open (the host holds no open handle) the dump     *)
(* still reaches its close, with every record traversed, one write per  *)
(* chunk, each on handle -1, and the one close on handle -1.            *)
C4_NoAbortOnOpenFailure ==
  pc = "close" /\ trap # None /\ hostOpen = {} =>
    /\ lFile = -1
    /\ pIt = GcovInfoEnd
    /\ Len(WrittenChunks) = Len(registry) * (nFn + nDt)
    /\ \A i \in 1..Len(reqs) : reqs[i].cmd = SYS_WRITE => reqs[i].args[1] = AllOnes
    /\ CountCmd(SYS_CLOSE) = 1
    /\ trap = [cmd |-> SYS_CLOSE, args |-> <<AllOnes>>]

C4_Witness ==
  /\ pc = "close" /\ trap # None /\ hostOpen = {}
  /\ Len(WrittenChunks) = 6

(* C5: the requests of a dump are a function of the file name, the      *)
(* handle the open returned and the emitted chunks alone: whatever the  *)
(* writes and the close return, each chunk is written once and the      *)
(* handle is closed once.                                               *)
C5_RequestsIndependentOfResults ==
  /\ InDump \/ DumpDone => CountCmd(SYS_WRITE) = Len(emitted)
  /\ DumpDone => reqs = DumpRequests(pszFilename, lFile, emitted)

C5_Witness ==
  /\ DumpDone
  /\ lFile # -1
  /\ ~writesOk
  /\ Len(emitted) = 6

(* C6: ulSemihostGetCmdline returns the high word of the raw result    *)
(* when its low word is 0, and 0 when the low word is not 0, whatever   *)
(* the high word holds.                                                 *)
C6_CmdlineLengthFromHighWord ==
  SvcDone("GetCmdline") =>
    ret = IF LowIsZero(reply) THEN <<reply[1], reply[2]>> ELSE <<0, 0>>

C6_Witness ==
  /\ SvcDone("GetCmdline")
  /\ reply = <<0, 42, 0, 0>>
  /\ ret = <<0, 42>>

(* C7: bSemihostClose, bSemihostSeek, bSemihostGetTmpnam and            *)
(* bSemihostGetElapsed return true when the result word (r0, the low    *)
(* 32 bits of the raw result) is 0 and false for every other word.      *)
C7_ZeroResultIsSuccess ==
  \A o \in {"Close", "Seek", "GetTmpnam", "GetElapsed"} :
    SvcDone(o) => ret = LowIsZero(reply)

C7_Witness ==
  /\ SvcDone("Seek")
  /\ <<reply[3], reply[4]>> = <<0, 1>>
  /\ ret = FALSE

(* C8: bSemihostIsTTY returns true iff the result word is exactly 1;    *)
(* bSemihostIsError returns true iff the result word is not 0.          *)
C8_IsTTYExactlyOneIsErrorNonZero ==
  /\ SvcDone("IsTTY") => ret = (reply[3] = 0 /\ reply[4] = 1)
  /\ SvcDone("IsError") => ret = ~LowIsZero(reply)

C8_Witness ==
  /\ SvcDone("IsTTY")
  /\ <<reply[3], reply[4]>> = <<0, 42>>
  /\ ret = FALSE

(* C9: bSemihostGetHeapInfo returns true iff the four fields of the     *)
(* record are all non-null after the call, whatever the raw result is.  *)
C9_HeapInfoValidIffAllFieldsSet ==
  SvcDone("GetHeapInfo") =>
    ret = (/\ heapInfo.pHeapBase # 0
           /\ heapInfo.pHeapLimit # 0
           /\ heapInfo.pStackBase # 0
           /\ heapInfo.pStackLimit # 0)

C9_Witness ==
  /\ SvcDone("GetHeapInfo")
  /\ LowIsZero(reply)
  /\ heapInfo.pHeapBase # 0 /\ heapInfo.pHeapLimit # 0
  /\ heapInfo.pStackBase # 0 /\ heapInfo.pStackLimit = 0
  /\ ret = FALSE

(* C10: a dump that starts after k >= 1 calls of Coverage_vInit, with   *)
(* no instrumented code run since the last of them, issues the requests *)
(* of a dump over zeroed counters, whatever k is; and a call of         *)
(* Coverage_vInit issues no request and leaves the registry alone.      *)
C10_SameDump ==
  InDump /\ nInit >= 1 /\ ticks = 0 =>
    /\ IsPrefix(WrittenChunks, ExpectedChunks(0))
    /\ pc = "close" => reqs = DumpRequests(pszFilename, lFile, ExpectedChunks(0))

C10_InitFrame ==
  nInit' # nInit =>
    /\ pc' = pc /\ trap' = trap /\ reqs' = reqs
    /\ registry' = registry /\ nFn' = nFn /\ nDt' = nDt

C10_InitIdempotent == [](C10_SameDump) /\ [][C10_InitFrame]_vars

C10_Witness ==
  /\ pc = "close"
  /\ nInit = 2 /\ ticks = 0
  /\ Len(registry) = 2 /\ nFn = 1 /\ nDt = 2
  /\ Len(WrittenChunks) = 6

(* positions at which the target is inside ullSemihostReqOp *)
InReqOp == pc \in {"open", "write", "close", "svc"}

(* while the trap is pending the target does not move and issues no    *)
(* request; the trap goes away only with the host's resume             *)
C11_Halted ==
  trap # None =>
    /\ pc' = pc
    /\ reqs' = reqs
    /\ trap' = trap \/ (trap' = None /\ regs' # NoRegs)

(* a request returns only once the host has serviced and resumed *)
C11_ReturnsServiced ==
  (InReqOp /\ pc' # pc) => (trap = None /\ regs # NoRegs)

(* C11: a transport request does not return to its caller until the    *)
(* debug host has serviced the trap and resumed the target; as long as  *)
(* no host services it the request does not return (no timeout, no      *)
(* cancellation) and no later request is issued.                        *)
C11_BlocksUntilServiced == [][C11_Halted /\ C11_ReturnsServiced]_vars

C11_Witness ==
  /\ pc = "write"
  /\ trap # None
  /\ trap.cmd = SYS_WRITE
  /\ Len(reqs) = 3

(* the command each int32_t-returning function issues *)
Int32Cmd(o) ==
  CASE o = "Open" -> 1
    [] o = "Write" -> 5
    [] o = "Read" -> 6
    [] o = "GetFLen" -> 12
    [] o = "GetErrno" -> 19
    [] o = "Remove" -> 14
    [] o = "Rename" -> 15
    [] o = "System" -> 18

(* r0, the low 32 bits of the reply, read as a two's complement number *)
SignedR0 ==
  IF regs.r0[1] >= 32768
    THEN (regs.r0[1] - 65536) * 65536 + regs.r0[2]
    ELSE regs.r0[1] * 65536 + regs.r0[2]

(* C12: each of lSemihostOpen, lSemihostWrite, lSemihostRead,           *)
(* lSemihostGetFLen, lSemihostGetErrno, lSemihostRemove, lSemihostRename *)
(* and lSemihostSystem issues exactly one transport request per call,   *)
(* with its own command, and returns the low 32 bits of the host's      *)
(* reply as a signed 32-bit integer, unchanged.                         *)
C12_OneRequestResultVerbatim ==
  \A o \in Int32Ops :
    SvcDone(o) =>
      /\ Len(reqs) = 1
      /\ reqs[1].cmd = Int32Cmd(o)
      /\ ret = SignedR0

C12_Witness ==
  /\ SvcDone("Read")
  /\ regs.r0 = <<32768, 0>>
  /\ regs.r1 = <<0, 42>>
  /\ ret < -1

(* the open has returned: lFile holds its result *)
OpenReturned == pc \in {"loop", "emit", "write", "close"} \/ DumpDone

(* lFile is what the host returned for the open, and every later        *)
(* request of the dump is a write or a close on that handle             *)
C13_HandleOfOpen ==
  OpenReturned =>
    /\ IF openR0 = <<65535, 65535>>
         THEN lFile = -1
         ELSE lFile = openR0[1] * 65536 + openR0[2]
    /\ \A i \in 2..Len(reqs) :
         /\ reqs[i].cmd \in {SYS_WRITE, SYS_CLOSE}
         /\ reqs[i].args[1] = openR0

C13_HandleKept == (InDump /\ pc # "open") => lFile' = lFile

(* C13: every write and the close of a dump carry exactly the handle    *)
(* value the open of that dump returned, whether a valid handle or the  *)
(* failure value, and the value is never changed between open and close *)
C13_WritesAndCloseCarryOpenResult ==
  [](C13_HandleOfOpen) /\ [][C13_HandleKept]_vars

C13_Witness ==
  /\ pc = "close"
  /\ trap # None
  /\ nDump = 1
  /\ openR0 = <<0, 4>>
  /\ Len(reqs) = 8
  /\ reqs[8].args[1] = <<0, 4>>

(* the open of the running dump is serviced and its close is not *)
FileInUse ==
  /\ InDump
  /\ ~(pc = "open" /\ trap # None)
  /\ ~(pc = "close" /\ trap = None)

(* C14: across any sequence of dumps at most one handle is held at any  *)
(* time, every open is followed by exactly one close before the next    *)
(* open, no write or close is issued on a handle after its close, and   *)
(* whenever no dump is running as many opens as closes were issued.     *)
C14_OpenOnceCloseOnce ==
  /\ Cardinality(hostOpen) <= 1
  /\ pc = "main" => (hostOpen = {} /\ nOpens = nCloses /\ nOpens = nDump)
  /\ InDump => nOpens = nCloses + (IF FileInUse THEN 1 ELSE 0)
  /\ trap.cmd = SYS_OPEN => (hostOpen = {} /\ nOpens = nCloses)
  /\ (trap.cmd \in {SYS_WRITE, SYS_CLOSE} /\ trap.args[1] # <<65535, 65535>>)
       => trap.args[1] \in hostOpen
  /\ CountCmd(SYS_OPEN) <= 1
  /\ \A i \in 1..Len(reqs) : reqs[i].cmd = SYS_CLOSE => i = Len(reqs)

C14_Witness ==
  /\ pc = "main"
  /\ nDump = 2
  /\ nOpens = 2
  /\ nCloses = 2
  /\ hostOpen = {}
  /\ openR0 = <<0, 3>>
  /\ Len(reqs) = 8

(* the dump returns from the position after bSemihostClose only *)
C15_ReturnsAfterClose ==
  (InDump /\ pc' = "main") =>
    /\ pc = "close"
    /\ reqs[Len(reqs)].cmd = SYS_CLOSE
    /\ nCloses' = nOpens

(* C15: with a host that services every request, every dump that is     *)
(* started returns, whatever the open, the writes and the close report, *)
(* and it returns only after its close has been issued.                 *)
C15_DumpTerminates ==
  /\ \A n \in 0..(MaxDumps - 1) :
       (InDump /\ nDump = n) ~> (pc = "main" /\ nDump = n + 1)
  /\ [][C15_ReturnsAfterClose]_vars

C15_Witness ==
  /\ pc = "main"
  /\ nDump = 2
  /\ lFile = -1
  /\ ~writesOk
  /\ Len(reqs) = 8
  /\ regs = NoRegs

(* the step in which libgcov calls the allocator changes nothing but    *)
(* libgcov's record of the call: no request is issued, nothing written  *)
C16_NoEffect ==
  (alloc'.called /\ ~alloc.called) =>
    UNCHANGED <<pc, trap, reply, regs, covVars, dumpVars, logVars, hostVars,
                svcVars, prev>>

(* C16: the allocator callback returns the null pointer on every call,  *)
(* for every requested size, issues no transport request and changes    *)
(* no state.                                                            *)
C16_AllocatorReturnsNull ==
  [](alloc.called => alloc.ret = 0) /\ [][C16_NoEffect]_vars

C16_Witness ==
  /\ alloc.called
  /\ alloc.uSize = 16
  /\ alloc.ret = 0
  /\ pc = "write"
  /\ pass = "data"
  /\ trap.cmd = SYS_WRITE

(* C17: the transport returns the host's two-register reply unmodified  *)
(* as one 64-bit value, r1 * 2^32 + r0 (r1 the high word, r0 the low    *)
(* word), and it delivers the command code and the argument block to    *)
(* the host exactly as the caller passed them.                          *)
C17_TransportUnmodified ==
  /\ regs # NoRegs =>
       reply = <<regs.r1[1], regs.r1[2], regs.r0[1], regs.r0[2]>>
  /\ trap # None =>
       /\ Len(reqs) = 1
       /\ trap = reqs[1]
       /\ trap.cmd # 0

C17_Witness ==
  /\ SvcDone("GetErrno")
  /\ regs.r0 = <<0, 1>>
  /\ regs.r1 = <<0, 42>>
  /\ reply = <<0, 42, 0, 1>>
  /\ ret = 1

(* C18: the open request of a dump names the caller's filename and      *)
(* mode 5 (write, binary, truncate); its argument block holds, in this  *)
(* order, the path pointer, the mode and the path length in bytes       *)
(* without the terminator.                                              *)
C18_OpenArgumentBlock ==
  reqs # <<>> =>
    reqs[1] = [cmd |-> 1,
               args |-> <<pszFilename.ptr, <<0, 5>>,
                          <<0, Len(pszFilename.chars) - 1>>>>]

C18_Witness ==
  /\ pc = "open"
  /\ trap # None
  /\ pszFilename = CoverageBin
  /\ trap.args = <<<<0, 4096>>, <<0, 5>>, <<0, 18>>>>

(* no step of a dump, from its call to its return, writes the registry, *)
(* the records' layout or the counters                                  *)
C19_ReadOnly ==
  (pc # "main" \/ pc' # "main") =>
    UNCHANGED <<registry, nFn, nDt, counters>>

(* a dump that follows another emits what the dump before emitted *)
C19_SameChunks ==
  /\ (InDump /\ nDump >= 1) => IsPrefix(emitted, prev)
  /\ (pc = "main" /\ nDump >= 2) => emitted = prev

(* C19: a dump reads the registry and the counters and writes neither;  *)
(* two dumps in a row, with no instrumented code run in between,        *)
(* traverse the same records and emit the same chunks.                  *)
C19_DumpReadsOnly == [](C19_SameChunks) /\ [][C19_ReadOnly]_vars

C19_Witness ==
  /\ pc = "main"
  /\ nDump = 2
  /\ counters = 1
  /\ Len(emitted) = 6
  /\ prev = emitted
  /\ pszFilename = ShortName

(* the pipeline's lifecycle state: 0 Uninitialized, 1 Counting,         *)
(* 2 Exporting, 3 Closed (the close is issued, or the dump returned)    *)
Phase ==
  IF nDump >= 1 \/ pc = "close" THEN 3
  ELSE IF InDump THEN 2
  ELSE IF nInit >= 1 THEN 1
  ELSE 0

C20_Lifecycle ==
  /\ nInit <= 1
  /\ nDump <= 1
  /\ nOpens <= 1
  /\ CountCmd(SYS_OPEN) <= 1
  /\ Phase = 0 => (counters = 0 /\ ticks = 0)
  /\ Phase <= 1 => (reqs = <<>> /\ trap = None /\ nOpens = 0)
  /\ Phase >= 2 => (nInit = 1 /\ pszFilename = CoverageBin)
  /\ Phase = 3 =>
       /\ trap.cmd # SYS_WRITE
       /\ reqs[Len(reqs)].cmd = SYS_CLOSE

C20_Forward == Phase' >= Phase /\ Phase' <= Phase + 1

(* C20: in the demo program the lifecycle only moves forward along      *)
(* Uninitialized -> Counting -> Exporting -> Closed: Coverage_vInit is  *)
(* the first operation, Coverage_vDump is called once and after the     *)
(* initialisation, no transport request is issued before the dump       *)
(* starts, and no write is issued in the Closed state.                  *)
C20_LifecycleForward == [](C20_Lifecycle) /\ [][C20_Forward]_vars

C20_Witness ==
  /\ Phase = 3
  /\ pc = "main"
  /\ nInit = 1
  /\ nDump = 1
  /\ counters = 1
  /\ Len(reqs) = 8
  /\ hostOpen = {}

(* C21: during a dump the only transport commands issued are SYS_OPEN,  *)
(* SYS_WRITE and SYS_CLOSE: no get-errno, is-error, seek, read or other *)
(* command, also not after a failed open, a write with a nonzero        *)
(* remainder or a failed close.                                         *)
C21_OnlyOpenWriteClose ==
  /\ \A i \in 1..Len(reqs) : reqs[i].cmd \in {1, 5, 2}
  /\ trap # None => trap.cmd \in {1, 5, 2}
  /\ (InDump /\ pc # "open") => Len(reqs) = Len(emitted) + (IF pc = "close" THEN 2 ELSE 1)
  /\ DumpDone => Len(reqs) = Len(emitted) + 2

C21_Witness ==
  /\ pc = "close"
  /\ trap = None
  /\ regs.r0 = <<65535, 65535>>
  /\ lFile = -1
  /\ ~writesOk
  /\ Len(reqs) = 8
  /\ reqs[8].cmd = SYS_CLOSE

====
